---- MODULE Spec2Model ----
(***************************************************************************)
(* Dispatch and timing engine of the 403-bypass fuzzer                     *)
(* (src/src/bypass_403.py, class Fuzzer).                                  *)
(*                                                                         *)
(* Threads: the main thread (Main) runs run(), the target loop, the path   *)
(* batch loop, the sequential dispatcher and the collector of the          *)
(* concurrent dispatcher; the pool's worker threads run                    *)
(* _make_threaded_request.  Every thread is at a position pc[t]; a call of *)
(* _is_timeout / _is_timeout_global is the sub-position tc[t].  Wall-clock *)
(* time is the variable now, advanced by Tick; a Python string is a        *)
(* sequence of one-character strings.                                      *)
(***************************************************************************)
EXTENDS Naturals, Integers, Sequences, FiniteSets, TLC

\* ------------------------------------------------------------- bounds ----
\* Seconds the clock may advance in one-second ticks (per minute slot).
MaxShortTicks == 2
\* Minutes the clock may advance in one-minute ticks.
MaxMinuteTicks == 2
\* Worker thread identities available to a pool.
MaxWorkers == 3

\* ---------------------------------------------------------- constants ----
\* utility.constants.MAX_RESULT is 10000; the dispatcher reads it only in
\* len(all_results) >= MAX_RESULT, and the model runs with a scaled cap so
\* that a task list can exceed it.
MAX_RESULT == 3
\* elapsed_minutes = (current_time - scan_start_time) / 60
SecondsPerMinute == 60
\* value of time.time() when the model starts observing (any value > 0)
T0 == 1

Main == 0
WorkerIds == 1..MaxWorkers
Threads == {Main} \cup WorkerIds
Free == 0 - 1
\* None for a numeric option (delay, time, per_url_time_limit)
NoneNum == 0 - 1
\* None or "" for a string
NoStr == <<>>

\* ------------------------------------------------------------ strings ----
Upper(c) ==
  CASE c = "x" -> "X" [] c = "y" -> "Y" [] c = "g" -> "G" [] c = "e" -> "E"
    [] c = "t" -> "T" [] c = "p" -> "P" [] c = "o" -> "O" [] c = "s" -> "S"
    [] c = "u" -> "U" [] c = "h" -> "H" [] c = "a" -> "A" [] c = "d" -> "D"
    [] OTHER -> c

\* str.upper()
StrUpper(s) == [i \in 1..Len(s) |-> Upper(s[i])]

\* str.rstrip("/")
RECURSIVE RStripSlash(_)
RStripSlash(s) ==
  IF s # <<>> /\ s[Len(s)] = "/" THEN RStripSlash(SubSeq(s, 1, Len(s) - 1))
  ELSE s

\* ------------------------------------------------------ configuration ----
\* The resolved configuration a run starts from (FuzzerStaticConfig and
\* FuzzerRuntimeConfig).  oracle selects the deterministic behaviour of the
\* network for the run.
BaseConfig ==
  [ base_url |-> NoStr, url_file |-> <<>>, path_file |-> <<>>,
    method |-> <<>>, method_file |-> <<>>,
    header |-> {}, header_file |-> <<>>,
    max_methods |-> NoneNum, max_headers |-> NoneNum,
    num_threads |-> 1, delay |-> NoneNum, time |-> NoneNum,
    per_url_time_limit |-> NoneNum, path_batch_size |-> 1,
    filter_status_code |-> {}, oracle |-> "ok" ]

TargetA == <<"a">>
TargetB == <<"b", "/">>
Get == <<"g", "e", "t">>
Post == <<"P", "O", "S", "T">>
Put == <<"p", "u", "t">>

\* concurrent scans (two pool threads) of targets without a path list
ConcurrentConfigs ==
  LET conc == [BaseConfig EXCEPT !.num_threads = 2]
  IN { [conc EXCEPT !.url_file = <<TargetA>>],
       [conc EXCEPT !.url_file = <<TargetA, TargetB>>, !.method = <<Get, Post>>,
                    !.oracle = "mixed"],
       [conc EXCEPT !.url_file = <<TargetA, TargetB>>, !.method = <<Get, Post>>,
                    !.time = 1],
       [conc EXCEPT !.url_file = <<TargetA, TargetB>>, !.method = <<Get, Post>>,
                    !.per_url_time_limit = 1],
       [conc EXCEPT !.url_file = <<TargetA>>, !.method = <<Get, Post, Put>>,
                    !.delay = 1],
       [conc EXCEPT !.url_file = <<TargetA>>, !.method = <<Get, Post>>,
                    !.delay = 2],
       [conc EXCEPT !.url_file = <<TargetA>>, !.method = <<Get, Post>>,
                    !.delay = 0],
       [conc EXCEPT !.url_file = <<TargetA>>, !.method = <<Get, Post>>,
                    !.header = {<<"X", "0">>}] }

\* sequential scans, with and without a path list
SequentialConfigs ==
  LET paths == << <<"x">>, <<"Y">> >>
  IN { [BaseConfig EXCEPT !.url_file = <<TargetA, TargetB>>, !.path_file = paths,
                          !.method = <<Get>>, !.per_url_time_limit = 1],
       [BaseConfig EXCEPT !.url_file = <<TargetA, TargetB>>,
                          !.method = <<Get, Post>>, !.time = 1,
                          !.per_url_time_limit = 1],
       [BaseConfig EXCEPT !.base_url = <<"d">>, !.path_file = paths,
                          !.method = <<Get>>],
       [BaseConfig EXCEPT !.base_url = <<"d">>,
                          !.path_file = << <<"x">>, <<"x">> >>,
                          !.method = <<Get>>],
       [BaseConfig EXCEPT !.base_url = <<"d">>, !.path_file = paths,
                          !.method = <<Get>>, !.per_url_time_limit = 1],
       [BaseConfig EXCEPT !.base_url = <<"d">>, !.path_file = paths,
                          !.path_batch_size = 2, !.oracle = "mixed"],
       [BaseConfig EXCEPT !.base_url = <<"d">>,
                          !.path_file = << <<"x">>, <<"Y">>, <<"s">> >>,
                          !.path_batch_size = 2, !.method = <<Get>>],
       [BaseConfig EXCEPT !.base_url = <<"d">>, !.url_file = <<TargetA, TargetB>>,
                          !.oracle = "mixed"],
       [BaseConfig EXCEPT !.url_file = <<TargetA>>, !.oracle = "errors"],
       [BaseConfig EXCEPT !.url_file = <<TargetA>>, !.max_methods = 2],
       [BaseConfig EXCEPT !.url_file = <<TargetA>>, !.oracle = "codes",
                          !.method = <<Get, Put, Post>>,
                          !.filter_status_code = {"403"}],
       [BaseConfig EXCEPT !.base_url = <<"d">>,
                          !.path_file = << <<"-", "-", "-", ">", " ", "4", "0", "3", ",">> >>,
                          !.method = <<Get>>, !.filter_status_code = {"403"}],
       [BaseConfig EXCEPT !.url_file = <<TargetA>>, !.max_methods = 2,
                          !.method_file = <<Get, Post, Put>>,
                          !.header_file = <<{<<"X", "1">>}, {<<"X", "2">>}>>,
                          !.max_headers = 1],
       [BaseConfig EXCEPT !.url_file = <<TargetA>>, !.oracle = "errors",
                          !.method = << <<"h", "e", "a", "d">>, Get >>],
       [BaseConfig EXCEPT !.url_file = <<TargetA>>, !.method = <<Put>>,
                          !.method_file = <<Get, Post>>,
                          !.header = {<<"X", "0">>},
                          !.header_file = <<{<<"X", "1">>}>>],
       [BaseConfig EXCEPT !.url_file = <<TargetA, TargetB>>, !.method = <<Get, Post>>,
                          !.delay = 1, !.per_url_time_limit = 1] }

Configs == ConcurrentConfigs \cup SequentialConfigs

VARIABLES
  cfg,                     \* the configuration of the run
  now,                     \* time.time()
  pc, tc,                  \* position of each thread; position in a timeout check
  cur,                     \* the (url, method, headers) a thread is requesting
  sleep_until,             \* wake-up time of a thread in time.sleep
  res,                     \* outcome of the thread's network call
  stop_event, time_hit_logged, log_lock, logged_count,
  last_request_time, request_timing_lock,
  scan_start_time, current_url_start_time,
  base_url, original_base_url,
  url_index, results,      \* _process_url_list: loop index, results
  batch_i, batch_results,  \* _process_paths_for_base_url: i, results
  all_results,             \* the dispatcher's all_results
  ui, mi, hi,              \* _run_sequential: loop positions
  fut, fres, qhead, sem,   \* futures, their results, the pool's queue, the semaphore
  yielded, cfut, ci,       \* as_completed: yielded futures, current one; cancel loop
  wtask,                   \* the future a worker is running
  returned,                \* what run() returned
  filtered_results,        \* filtered_results of _finalize_results (logged, written)
  \* observations (history, read by no action)
  timeout_logs,            \* times the "Global time limit exceeded" line was logged
  lrt_writes,              \* values written to _last_request_time, in order
  cd_calls,                \* calls of _coordinate_delay for a thread's current request
  accepted,                \* every record appended to an all_results list
  late,                    \* targets whose loop iteration began after the deadline
  started_url,             \* targets set as current (with the start time given)
  per_url_hit,             \* targets during which _is_per_url_timeout was true
  pending_at_cap,          \* futures still pending when the cap was reached
  expanded,                \* paths expanded by the current _process_paths_for_base_url
  executed_matching,       \* requests completed with an outcome the filter admits
  timeout_seen,            \* the collector of the dispatch saw _is_timeout() true
  at_timeout,              \* all_results when it saw it
  contributors,            \* the futures whose records were appended, in order
  requested                \* futures whose network call has begun

threadVars == <<pc, tc, cur, sleep_until, res>>
flagVars == <<stop_event, time_hit_logged, log_lock, timeout_logs>>
limiterVars == <<last_request_time, request_timing_lock, lrt_writes, cd_calls>>
targetVars == <<scan_start_time, current_url_start_time, base_url,
                original_base_url, url_index, results, started_url, late>>
batchVars == <<batch_i, batch_results, expanded>>
seqVars == <<ui, mi, hi>>
poolVars == <<fut, fres, qhead, sem, yielded, cfut, ci, wtask,
              pending_at_cap, timeout_seen, at_timeout,
              contributors, requested>>
resultVars == <<all_results, accepted, returned, filtered_results, logged_count,
               executed_matching>>

vars == <<cfg, now, threadVars, flagVars, limiterVars, targetVars, batchVars,
          seqVars, poolVars, resultVars, per_url_hit>>

\* Fuzzer.__init__
Init ==
  /\ cfg \in Configs
  /\ now = T0
  /\ pc = [t \in Threads |-> IF t = Main THEN "run" ELSE "idle"]
  /\ tc = [t \in Threads |-> "none"]
  /\ cur = [t \in Threads |-> <<>>]
  /\ sleep_until = [t \in Threads |-> 0]
  /\ res = [t \in Threads |-> ""]
  /\ stop_event = FALSE
  /\ time_hit_logged = FALSE
  /\ log_lock = Free
  /\ logged_count = 0
  /\ executed_matching = 0
  /\ last_request_time = 0
  /\ request_timing_lock = Free
  /\ scan_start_time = NoneNum
  /\ current_url_start_time = NoneNum
  /\ base_url = cfg.base_url
  /\ original_base_url = NoStr
  /\ url_index = 0
  /\ results = <<>>
  /\ batch_i = 0
  /\ batch_results = <<>>
  /\ expanded = <<>>
  /\ all_results = <<>>
  /\ ui = 0 /\ mi = 0 /\ hi = 0
  /\ fut = <<>> /\ fres = <<>> /\ qhead = 1 /\ sem = 0
  /\ yielded = {} /\ cfut = 0 /\ ci = 0
  /\ wtask = [w \in WorkerIds |-> 0]
  /\ returned = <<>>
  /\ filtered_results = <<>>
  /\ timeout_logs = 0
  /\ lrt_writes = <<>>
  /\ cd_calls = [t \in Threads |-> 0]
  /\ accepted = <<>>
  /\ late = {}
  /\ started_url = {}
  /\ per_url_hit = {}
  /\ pending_at_cap = {}
  /\ timeout_seen = FALSE
  /\ at_timeout = <<>>
  /\ contributors = <<>>
  /\ requested = {}

\* ------------------------------------------------- pure configuration ----
DefaultMethods ==
  << <<"G", "E", "T">>, <<"P", "O", "S", "T">>,
     <<"P", "A", "T", "C", "H">>, <<"H", "E", "A", "D">> >>

Truncate(list, max) ==
  IF max # NoneNum /\ Len(list) > max THEN SubSeq(list, 1, max) ELSE list

\* fault variant: the method file takes precedence over the explicit methods
FileFirstMethods ==
  IF cfg.method_file # <<>>
    THEN Truncate([i \in 1..Len(cfg.method_file) |-> StrUpper(cfg.method_file[i])],
                  cfg.max_methods)
  ELSE IF cfg.method # <<>>
    THEN Truncate([i \in 1..Len(cfg.method) |-> StrUpper(cfg.method[i])],
                  cfg.max_methods)
  ELSE DefaultMethods

\* Fuzzer._get_methods
GetMethods ==
  IF cfg.method # <<>>
    THEN Truncate([i \in 1..Len(cfg.method) |-> StrUpper(cfg.method[i])],
                  cfg.max_methods)
  ELSE IF cfg.method_file # <<>>
    THEN Truncate([i \in 1..Len(cfg.method_file) |-> StrUpper(cfg.method_file[i])],
                  cfg.max_methods)
  ELSE DefaultMethods

\* Fuzzer._get_headers (a header mapping is a set of <<name, value>> pairs)
GetHeaders ==
  IF cfg.header # {} THEN Truncate(<<cfg.header>>, cfg.max_headers)
  ELSE IF cfg.header_file # <<>> THEN Truncate(cfg.header_file, cfg.max_headers)
  ELSE Truncate(<<{}>>, cfg.max_headers)

\* fault variant: a catalog without the upper-cased variant
CatalogWithoutUpper(base, path) ==
  << base \o <<"/">> \o path,
     base \o <<"/", "%", "2", "e", "/">> \o path,
     base \o <<"/">> \o path \o <<"/", ".">> >>

\* Fuzzer._generate_url_variations: the catalog for one path
Variations(base, path) ==
  << base \o <<"/">> \o path,
     base \o <<"/", "%", "2", "e", "/">> \o path,
     base \o <<"/">> \o path \o <<"/", ".">>,
     base \o <<"/", "/">> \o path \o <<"/", "/">>,
     base \o <<"/", ".", "/">> \o path \o <<"/", ".", "/">>,
     base \o <<"/", "/", "/">> \o path \o <<"/", "/", "/">>,
     base \o <<"/">> \o path \o <<".", ".", ";", "/">>,
     base \o <<"/">> \o path \o <<";", "/">>,
     base \o path \o <<"\\", "*">>,
     base \o <<"/">> \o path \o <<"/", "*">>,
     base \o <<"/">> \o path \o <<"%", "2", "0">>,
     base \o <<"/">> \o path \o <<"%", "0", "9">>,
     base \o <<"/">> \o StrUpper(path),
     base \o <<"/">> \o path \o <<"?">>,
     base \o <<"/">> \o path \o <<"/", "?", "a", "n", "y", "t", "h", "i", "n", "g">>,
     base \o <<"/">> \o path \o <<".", "h", "t", "m", "l">>,
     base \o <<"/">> \o path \o <<".", "p", "h", "p">>,
     base \o <<"/">> \o path \o <<".", "j", "s", "o", "n">> >>

RECURSIVE ExpandPaths(_, _)
\* the loop "for path in batch_paths: self._generate_url_variations(path, batch_urls)"
ExpandPaths(base, paths) ==
  IF paths = <<>> THEN <<>>
  ELSE Variations(base, Head(paths)) \o ExpandPaths(base, Tail(paths))

Min(a, b) == IF a < b THEN a ELSE b

\* fault variant: a chunk holds one path whatever the batch size is
OnePathChunk(i) == SubSeq(cfg.path_file, i + 1, Min(i + 1, Len(cfg.path_file)))

\* batch_paths = self.config.path_file[i : i + BATCH_SIZE]
BatchPaths(i) ==
  SubSeq(cfg.path_file, i + 1, Min(i + cfg.path_batch_size, Len(cfg.path_file)))

\* the urls argument of the _run_fuzz_threading call in progress
Urls ==
  IF cfg.path_file # <<>> THEN ExpandPaths(base_url, BatchPaths(batch_i))
  ELSE <<base_url>>

\* request_tasks: for url, for method, for header: (url, method, header)
RequestTasks(urls) ==
  LET M == Len(GetMethods)
      H == Len(GetHeaders)
  IN [k \in 1..(Len(urls) * M * H) |->
        << urls[((k - 1) \div (M * H)) + 1],
           GetMethods[(((k - 1) \div H) % M) + 1],
           GetHeaders[((k - 1) % H) + 1] >>]

\* the status codes the modelled servers answer with (decimal strings)
Statuses == {"200", "403", "404"}

\* What requests.request does for a task: a response with a status code, or
\* the class of the exception it raises ("Exception" is one that is no
\* RequestException).
Respond(task) ==
  CASE cfg.oracle = "ok" -> "200"
    [] cfg.oracle = "mixed" ->
         CASE task[2] = <<"G", "E", "T">> -> "403"
           [] task[2] = <<"P", "O", "S", "T">> -> "Exception"
           [] task[2] = <<"P", "A", "T", "C", "H">> -> "ReadTimeout"
           [] OTHER -> "404"
    [] cfg.oracle = "codes" ->
         CASE task[2] = <<"G", "E", "T">> -> "200"
           [] task[2] = <<"P", "U", "T">> -> "403"
           [] OTHER -> "404"
    [] OTHER ->
         CASE task[2] = <<"G", "E", "T">> -> "ConnectTimeout"
           [] task[2] = <<"P", "O", "S", "T">> -> "SSLError"
           [] task[2] = <<"P", "A", "T", "C", "H">> -> "InvalidURL"
           [] task[2] = <<"H", "E", "A", "D">> -> "ReadTimeout"
           [] OTHER -> "200"

\* len(response.content) of the response to a task
ContentLength(task) == Len(task[1])

\* the classes an exception class is an instance of (the hierarchy of
\* requests.exceptions that the except clauses rely on)
Bases(cls) ==
  CASE cls = "ConnectTimeout" ->
         {"ConnectTimeout", "Timeout", "ConnectionError", "RequestException"}
    [] cls = "ReadTimeout" -> {"ReadTimeout", "Timeout", "RequestException"}
    [] cls = "SSLError" -> {"SSLError", "ConnectionError", "RequestException"}
    [] cls = "InvalidURL" -> {"InvalidURL", "RequestException"}
    [] OTHER -> {cls}

\* fault variant: the connection clause precedes the timeout clause
ConnectionClauseFirst ==
  << <<"ConnectionError", "CONNECTION_ERROR">>, <<"Timeout", "TIMEOUT">>,
     <<"RequestException", "ERROR">> >>

\* the except clauses of _make_single_request, in order: class caught and
\* the tag of the record returned
ExceptClauses ==
  << <<"Timeout", "TIMEOUT">>, <<"ConnectionError", "CONNECTION_ERROR">>,
     <<"RequestException", "ERROR">> >>

RECURSIVE Caught(_, _)
\* the tag of the first clause from i on that catches cls; "RAISE" when no
\* clause does and the exception leaves _make_single_request
Caught(cls, i) ==
  IF i > Len(ExceptClauses) THEN "RAISE"
  ELSE IF ExceptClauses[i][1] \in Bases(cls) THEN ExceptClauses[i][2]
  ELSE Caught(cls, i + 1)

\* the outcome tag of a request: the status code of a response, or what the
\* except clauses make of an exception
Tag(raw) == IF raw \in Statuses THEN raw ELSE Caught(raw, 1)

\* self.user_agents, here a list of one entry, and random.choice of it
UserAgent == "ua"

\* the headers sent: a copy with a User-Agent added when there is none
WithUserAgent(headers) ==
  IF \E h \in headers : h[1] = "User-Agent" THEN headers
  ELSE headers \cup {<<"User-Agent", UserAgent>>}

\* the record _make_single_request returns (the formatted line, as a tuple
\* of url, tag, method, headers, bytes)
Record(task, raw) ==
  IF raw \in Statuses
    THEN <<task[1], raw, task[2], WithUserAgent(task[3]), ContentLength(task)>>
  ELSE <<task[1], Tag(raw), task[2], {}, 0>>

\* the characters of a tag or of a status code (str(code))
Chars(tag) ==
  CASE tag = "200" -> <<"2", "0", "0">>
    [] tag = "403" -> <<"4", "0", "3">>
    [] tag = "404" -> <<"4", "0", "4">>
    [] tag = "TIMEOUT" -> <<"T", "I", "M", "E", "O", "U", "T">>
    [] tag = "CONNECTION_ERROR" ->
         <<"C", "O", "N", "N", "E", "C", "T", "I", "O", "N", "_",
           "E", "R", "R", "O", "R">>
    [] OTHER -> <<"E", "R", "R", "O", "R">>

Digit(n) ==
  CASE n = 0 -> "0" [] n = 1 -> "1" [] n = 2 -> "2" [] n = 3 -> "3"
    [] n = 4 -> "4" [] n = 5 -> "5" [] n = 6 -> "6" [] n = 7 -> "7"
    [] n = 8 -> "8" [] OTHER -> "9"

\* the decimal digits of a byte count below 100
Digits(n) == IF n < 10 THEN <<Digit(n)>> ELSE <<Digit(n \div 10), Digit(n % 10)>>

\* the text of a header mapping, its entries abridged to one character
HeaderText(headers) == IF headers = {} THEN <<"{", "}">> ELSE <<"{", "h", "}">>

Arrow == <<" ", "-", "-", "-", ">", " ">>

\* the line f"{url} ---> {tag}, {method}, {headers}, {n} bytes" of a record
Format(rec) ==
  rec[1] \o Arrow \o Chars(rec[2]) \o <<",", " ">> \o rec[3] \o <<",", " ">>
    \o HeaderText(rec[4]) \o <<",", " ">> \o Digits(rec[5])
    \o <<" ", "b", "y", "t", "e", "s">>

\* Python's "pattern in line" for strings
Contains(line, pattern) ==
  \E i \in 1..(Len(line) - Len(pattern) + 1) :
    SubSeq(line, i, i + Len(pattern) - 1) = pattern

\* the test of Configuration.filter_status for one record:
\* any(f"---> {code}," in r for code in codes)
MatchesCode(rec, codes) ==
  \E code \in codes :
    Contains(Format(rec), <<"-", "-", "-", ">", " ">> \o Chars(code) \o <<",">>)

RECURSIVE FilterStatus(_, _)
\* Configuration.filter_status: the records whose line holds "---> code,"
\* for one of the codes, in their order
FilterStatus(recs, codes) ==
  IF recs = <<>> THEN <<>>
  ELSE (IF MatchesCode(Head(recs), codes) THEN <<Head(recs)>> ELSE <<>>)
         \o FilterStatus(Tail(recs), codes)

\* ---------------------------------------------------------------- time ----
\* time.time() advances by a second or by a minute.  Seconds are observable
\* only through the request delay and the per-target limit, minutes only
\* through the global limit; both kinds of step are bounded.
Tick ==
  /\ pc[Main] \notin {"done", "raised"}
  /\ \E dt \in {1, SecondsPerMinute} :
       /\ dt = 1 =>
            /\ cfg.delay # NoneNum \/ cfg.per_url_time_limit # NoneNum
            /\ ((now - T0) % SecondsPerMinute) < MaxShortTicks
       /\ dt = SecondsPerMinute =>
            /\ cfg.time # NoneNum
            /\ ((now - T0) \div SecondsPerMinute) < MaxMinuteTicks
       /\ now' = now + dt
  /\ UNCHANGED <<cfg, threadVars, flagVars, limiterVars, targetVars, batchVars,
                 seqVars, poolVars, resultVars, per_url_hit>>

\* time.sleep(sleep_time) of _coordinate_delay lets the time pass: the clock
\* reaches the wake-up time of a sleeping thread
SleepElapse(t) ==
  /\ pc[t] = "cd_sleep"
  /\ now < sleep_until[t]
  /\ now' = sleep_until[t]
  /\ UNCHANGED <<cfg, threadVars, flagVars, limiterVars, targetVars, batchVars,
                 seqVars, poolVars, resultVars, per_url_hit>>

\* --------------------------------------------------- run, target loop ----
UrlMode == cfg.url_file # <<>>
PathMode == cfg.path_file # <<>>

\* Fuzzer.run up to the choice of the drive mode
Run ==
  /\ pc[Main] = "run"
  /\ logged_count' = 0
  /\ executed_matching' = 0
  /\ scan_start_time' = now
  /\ pc' = [pc EXCEPT ![Main] =
              IF UrlMode THEN "url_loop"
              ELSE IF cfg.base_url # NoStr /\ PathMode THEN "batch_loop"
              ELSE "finalize"]
  /\ UNCHANGED <<cfg, now, tc, cur, sleep_until, res, flagVars, limiterVars,
                 current_url_start_time, base_url, original_base_url,
                 url_index, results, started_url, late, batchVars, seqVars,
                 poolVars, all_results, accepted, returned, filtered_results,
                 per_url_hit>>

\* fault variant: the elapsed seconds are compared with the limit in minutes
SecondsForMinutes ==
  /\ cfg.time # NoneNum
  /\ scan_start_time # NoneNum
  /\ (now - scan_start_time) > cfg.time

\* the test of _is_timeout_global: elapsed_minutes > global_time_limit_minutes
GlobalExpired ==
  /\ cfg.time # NoneNum
  /\ scan_start_time # NoneNum
  /\ (now - scan_start_time) > cfg.time * SecondsPerMinute

\* _process_url_list: the next target of the for loop, and its call of
\* _is_timeout_global
UrlLoopNext ==
  /\ pc[Main] = "url_loop"
  /\ url_index < Len(cfg.url_file)
  /\ url_index' = url_index + 1
  /\ late' = IF GlobalExpired THEN late \cup {url_index + 1} ELSE late
  /\ pc' = [pc EXCEPT ![Main] = "url_check"]
  /\ tc' = [tc EXCEPT ![Main] = "global"]
  /\ UNCHANGED <<cfg, now, cur, sleep_until, res, flagVars, limiterVars,
                 scan_start_time, current_url_start_time, base_url,
                 original_base_url, results, started_url, batchVars, seqVars,
                 poolVars, resultVars, per_url_hit>>

\* _process_url_list: the for loop is exhausted, "return results"
UrlLoopEnd ==
  /\ pc[Main] = "url_loop"
  /\ url_index >= Len(cfg.url_file)
  /\ pc' = [pc EXCEPT ![Main] = "finalize"]
  /\ UNCHANGED <<cfg, now, tc, cur, sleep_until, res, flagVars, limiterVars,
                 targetVars, batchVars, seqVars, poolVars, resultVars,
                 per_url_hit>>

\* fault variant: the target loop ignores the result of its global check
NeverBreaks(r) == FALSE

\* "if self._is_timeout_global(): ... break" of _process_url_list
UrlBreaks(r) == r

\* fault variant: the per-target start time is set for the first target only
StaleStartTime ==
  IF current_url_start_time = NoneNum THEN now ELSE current_url_start_time

\* the per-target start time given to a target set as current
\* (self.current_url_start_time = time.time())
UrlStartTime == now

\* _process_url_list after its global check returned r: break, or the target
\* becomes current and _process_paths_for_base_url or
\* _run_fuzz_threading([base_url]) is called
UrlChecked(r) ==
  /\ tc' = [tc EXCEPT ![Main] = "none"]
  /\ IF UrlBreaks(r)
       THEN /\ pc' = [pc EXCEPT ![Main] = "finalize"]
            /\ UNCHANGED <<current_url_start_time, original_base_url, base_url,
                           started_url, batchVars>>
       ELSE /\ current_url_start_time' = UrlStartTime
            /\ original_base_url' = base_url
            /\ base_url' = RStripSlash(cfg.url_file[url_index])
            /\ started_url' = started_url \cup {url_index}
            /\ batch_i' = 0
            /\ batch_results' = <<>>
            /\ expanded' = <<>>
            /\ pc' = [pc EXCEPT ![Main] = IF PathMode THEN "batch_loop"
                                          ELSE "fuzz"]
  /\ UNCHANGED <<cur, sleep_until, res, limiterVars, scan_start_time,
                 url_index, results, late, seqVars, poolVars, resultVars>>

\* _process_url_list: results.extend(url_results), then the finally clause
UrlFinish ==
  /\ pc[Main] = "url_finish"
  /\ results' = results \o (IF PathMode THEN batch_results ELSE all_results)
  /\ base_url' = original_base_url
  /\ pc' = [pc EXCEPT ![Main] = "url_loop"]
  /\ UNCHANGED <<cfg, now, tc, cur, sleep_until, res, flagVars, limiterVars,
                 scan_start_time, current_url_start_time, original_base_url,
                 url_index, started_url, late, batchVars, seqVars, poolVars,
                 resultVars, per_url_hit>>

\* the results run() passes to _finalize_results
RunResults ==
  IF UrlMode THEN results
  ELSE IF cfg.base_url # NoStr /\ PathMode THEN batch_results
  ELSE <<>>

\* Fuzzer.run: "return self._finalize_results(results)", which filters the
\* results for the log and the output file and returns its argument
FinalizeResults ==
  /\ pc[Main] = "finalize"
  /\ returned' = RunResults
  /\ filtered_results' =
       IF cfg.filter_status_code # {}
         THEN FilterStatus(RunResults, cfg.filter_status_code)
       ELSE RunResults
  /\ pc' = [pc EXCEPT ![Main] = "done"]
  /\ UNCHANGED <<cfg, now, tc, cur, sleep_until, res, flagVars, limiterVars,
                 targetVars, batchVars, seqVars, poolVars, all_results,
                 accepted, logged_count, executed_matching, per_url_hit>>

\* ---------------------------------------------------------- batch loop ----
\* _process_paths_for_base_url: the next chunk and its timeout checks
\* (lines 169-174: global, then per-target; either one breaks)
BatchLoopNext ==
  /\ pc[Main] = "batch_loop"
  /\ batch_i < Len(cfg.path_file)
  /\ pc' = [pc EXCEPT ![Main] = "batch_check"]
  /\ tc' = [tc EXCEPT ![Main] = "global"]
  /\ UNCHANGED <<cfg, now, cur, sleep_until, res, flagVars, limiterVars,
                 targetVars, batchVars, seqVars, poolVars, resultVars,
                 per_url_hit>>

\* where _process_paths_for_base_url returns to
BatchReturnPc == IF UrlMode THEN "url_finish" ELSE "finalize"

\* _process_paths_for_base_url: the range is exhausted, "return results"
BatchLoopEnd ==
  /\ pc[Main] = "batch_loop"
  /\ batch_i >= Len(cfg.path_file)
  /\ pc' = [pc EXCEPT ![Main] = BatchReturnPc]
  /\ UNCHANGED <<cfg, now, tc, cur, sleep_until, res, flagVars, limiterVars,
                 targetVars, batchVars, seqVars, poolVars, resultVars,
                 per_url_hit>>

\* _process_paths_for_base_url after its checks returned r: break, or the
\* chunk is expanded and dispatched
BatchChecked(r) ==
  /\ tc' = [tc EXCEPT ![Main] = "none"]
  /\ pc' = [pc EXCEPT ![Main] = IF r THEN BatchReturnPc ELSE "fuzz"]
  /\ expanded' = IF r THEN expanded ELSE expanded \o BatchPaths(batch_i)
  /\ UNCHANGED <<cur, sleep_until, res, limiterVars, targetVars, batch_i,
                 batch_results, seqVars, poolVars, resultVars>>

\* ---------------------------------------------------------- dispatcher ----
\* fault variant: a pool and a semaphore one larger than num_threads
OversizedPool == cfg.num_threads + 1

\* max_workers = getattr(self.runtime_config, "num_threads", 1); it sizes the
\* pool and the semaphore
max_workers == cfg.num_threads

PoolWorkers == 1..max_workers

NoResult == <<>>
Raised == <<"RAISE">>

\* Fuzzer._run_fuzz_threading: the sequential branch, or the semaphore, the
\* task list and the submission of every task to the pool
RunFuzzThreading ==
  /\ pc[Main] = "fuzz"
  /\ all_results' = <<>>
  /\ IF max_workers <= 1
       THEN /\ ui' = 0 /\ mi' = 0 /\ hi' = 0
            /\ pc' = [pc EXCEPT ![Main] = "seq_url"]
            /\ UNCHANGED poolVars
       ELSE /\ fut' = [k \in 1..Len(RequestTasks(Urls)) |-> "pending"]
            /\ fres' = [k \in 1..Len(RequestTasks(Urls)) |-> NoResult]
            /\ qhead' = 1
            /\ sem' = max_workers
            /\ yielded' = {}
            /\ cfut' = 0
            /\ ci' = 0
            /\ pending_at_cap' = {}
            /\ timeout_seen' = FALSE
            /\ at_timeout' = <<>>
            /\ contributors' = <<>>
            /\ requested' = {}
            /\ pc' = [pc EXCEPT ![Main] = "collect"]
            /\ UNCHANGED <<wtask, seqVars>>
  /\ UNCHANGED <<cfg, now, tc, cur, sleep_until, res, flagVars, limiterVars,
                 targetVars, batchVars, accepted, returned, filtered_results,
                 logged_count, executed_matching,
                 per_url_hit>>

\* the dispatcher returns all_results to _process_paths_for_base_url
\* (results.extend(batch_results), next i) or to _process_url_list
FuzzReturn ==
  /\ pc[Main] = "fuzz_return"
  /\ IF PathMode
       THEN /\ batch_results' = batch_results \o all_results
            /\ UNCHANGED expanded
            /\ batch_i' = batch_i + cfg.path_batch_size
            /\ pc' = [pc EXCEPT ![Main] = "batch_loop"]
       ELSE /\ pc' = [pc EXCEPT ![Main] = "url_finish"]
            /\ UNCHANGED batchVars
  /\ UNCHANGED <<cfg, now, tc, cur, sleep_until, res, flagVars, limiterVars,
                 targetVars, seqVars, poolVars, resultVars, per_url_hit>>

\* fault variant: the dispatchers never test the cap
CapNeverReached(n) == FALSE

\* "if len(all_results) >= MAX_RESULT" of both dispatchers (lines 261, 318)
CapReached(n) == n >= MAX_RESULT

\* ---------------------------------------- entry of _make_single_request ----
\* fault variant: the worker passes is_threaded=False
WorkerNotThreaded == FALSE

\* the is_threaded argument of the call in _make_threaded_request (line 346)
WorkerIsThreaded == TRUE

\* _make_single_request up to its request: "if not is_threaded:
\* self._coordinate_delay(...)"
SingleRequestEntry(is_threaded) == IF is_threaded THEN "request" ELSE "cd"

\* where the n-th call of _coordinate_delay for a request returns to: in the
\* main thread into _make_single_request, before the request; in a worker
\* the first call into _make_threaded_request, which calls
\* _make_single_request, and a further one into _make_single_request
AfterDelay(t, n) ==
  IF t = Main \/ n > 1 THEN "request" ELSE SingleRequestEntry(WorkerIsThreaded)

\* ------------------------------------------------------ _run_sequential ----
SeqLoopUnchanged ==
  UNCHANGED <<cfg, now, cur, sleep_until, res, flagVars, limiterVars,
              targetVars, batchVars, poolVars, resultVars, per_url_hit>>

SeqCheckUnchanged ==
  UNCHANGED <<sleep_until, res, limiterVars, targetVars, batchVars, poolVars,
              resultVars>>

\* "for url in urls: if self._is_timeout(): break"
SeqUrlNext ==
  /\ pc[Main] = "seq_url"
  /\ IF ui < Len(Urls)
       THEN /\ ui' = ui + 1
            /\ pc' = [pc EXCEPT ![Main] = "seq_url_check"]
            /\ tc' = [tc EXCEPT ![Main] = "global"]
       ELSE /\ pc' = [pc EXCEPT ![Main] = "fuzz_return"]
            /\ UNCHANGED <<ui, tc>>
  /\ UNCHANGED <<mi, hi>>
  /\ SeqLoopUnchanged

\* the check of the url loop returned r: break (return all_results) or the
\* method loop
SeqUrlChecked(r) ==
  /\ tc' = [tc EXCEPT ![Main] = "none"]
  /\ pc' = [pc EXCEPT ![Main] = IF r THEN "fuzz_return" ELSE "seq_method"]
  /\ mi' = 0
  /\ UNCHANGED <<ui, hi, cur>>
  /\ SeqCheckUnchanged

\* "for method in self._get_methods(): if self._is_timeout(): break"
SeqMethodNext ==
  /\ pc[Main] = "seq_method"
  /\ IF mi < Len(GetMethods)
       THEN /\ mi' = mi + 1
            /\ pc' = [pc EXCEPT ![Main] = "seq_method_check"]
            /\ tc' = [tc EXCEPT ![Main] = "global"]
       ELSE /\ pc' = [pc EXCEPT ![Main] = "seq_url"]
            /\ UNCHANGED <<mi, tc>>
  /\ UNCHANGED <<ui, hi>>
  /\ SeqLoopUnchanged

\* the check of the method loop returned r: break (next url) or the header
\* loop
SeqMethodChecked(r) ==
  /\ tc' = [tc EXCEPT ![Main] = "none"]
  /\ pc' = [pc EXCEPT ![Main] = IF r THEN "seq_url" ELSE "seq_header"]
  /\ hi' = 0
  /\ UNCHANGED <<ui, mi, cur>>
  /\ SeqCheckUnchanged

\* "for header in self._get_headers(): if self._is_timeout(): break"
SeqHeaderNext ==
  /\ pc[Main] = "seq_header"
  /\ IF hi < Len(GetHeaders)
       THEN /\ hi' = hi + 1
            /\ pc' = [pc EXCEPT ![Main] = "seq_header_check"]
            /\ tc' = [tc EXCEPT ![Main] = "global"]
       ELSE /\ pc' = [pc EXCEPT ![Main] = "seq_method"]
            /\ UNCHANGED <<hi, tc>>
  /\ UNCHANGED <<ui, mi>>
  /\ SeqLoopUnchanged

\* fault variant: the header loop ignores the result of its check
HeaderLoopGoesOn(r) == FALSE

\* "if self._is_timeout(): break" of the header loop (lines 298-299)
HeaderLoopBreaks(r) == r

\* the check of the header loop returned r: break (next method) or
\* _make_single_request(url, method, header, is_threaded=False), which calls
\* _coordinate_delay
SeqHeaderChecked(r) ==
  /\ tc' = [tc EXCEPT ![Main] = "none"]
  /\ pc' = [pc EXCEPT ![Main] = IF HeaderLoopBreaks(r) THEN "seq_method"
                                ELSE SingleRequestEntry(FALSE)]
  /\ cur' = [cur EXCEPT ![Main] =
               IF HeaderLoopBreaks(r) THEN <<>>
               ELSE <<Urls[ui], GetMethods[mi], GetHeaders[hi]>>]
  /\ UNCHANGED seqVars
  /\ SeqCheckUnchanged

\* ------------------------------------------ rate limiter and the request ----
\* fault variant: the timestamp is read and written without the lock
LockIgnored == TRUE

\* "with self._request_timing_lock" can be entered
TimingLockFree == request_timing_lock = Free

\* fault variant: a delay of 0 is taken for a delay
ZeroDelayOn == cfg.delay = NoneNum \/ cfg.delay < 0

\* "if delay is None or delay <= 0: return" of _coordinate_delay
DelayOff == cfg.delay = NoneNum \/ cfg.delay <= 0

\* fault variant: the elapsed time is stored in place of the time read
ElapsedStored == now - last_request_time

\* current_time = time.time(), read under the lock (line 105) and stored in
\* _last_request_time when the caller need not sleep (lines 113, 115)
CurrentTime == now

\* Fuzzer._coordinate_delay up to time.sleep: a no-op without a positive
\* delay; otherwise, under the lock, the timestamp is compared and either
\* written or the thread sleeps holding the lock
CoordinateDelay(t) ==
  /\ pc[t] = "cd"
  /\ cd_calls' = [cd_calls EXCEPT ![t] = @ + 1]
  /\ IF DelayOff
       THEN /\ pc' = [pc EXCEPT ![t] = AfterDelay(t, cd_calls[t] + 1)]
            /\ UNCHANGED <<last_request_time, request_timing_lock, lrt_writes,
                           sleep_until>>
       ELSE /\ TimingLockFree
            /\ IF last_request_time > 0 /\ (now - last_request_time) < cfg.delay
                 THEN /\ request_timing_lock' = t
                      /\ sleep_until' = [sleep_until EXCEPT ![t] =
                                           now + (cfg.delay - (now - last_request_time))]
                      /\ pc' = [pc EXCEPT ![t] = "cd_sleep"]
                      /\ UNCHANGED <<last_request_time, lrt_writes>>
                 ELSE /\ last_request_time' = CurrentTime
                      /\ lrt_writes' = Append(lrt_writes, CurrentTime)
                      /\ pc' = [pc EXCEPT ![t] = AfterDelay(t, cd_calls[t] + 1)]
                      /\ UNCHANGED <<request_timing_lock, sleep_until>>
  /\ UNCHANGED <<cfg, now, tc, cur, res, flagVars, targetVars, batchVars,
                 seqVars, poolVars, resultVars, per_url_hit>>

\* Fuzzer._coordinate_delay: time.sleep(sleep_time) is over,
\* self._last_request_time = time.time(), the lock is released
CoordinateDelayWake(t) ==
  /\ pc[t] = "cd_sleep"
  /\ now >= sleep_until[t]
  /\ last_request_time' = now
  /\ lrt_writes' = Append(lrt_writes, now)
  /\ request_timing_lock' = Free
  /\ pc' = [pc EXCEPT ![t] = AfterDelay(t, cd_calls[t])]
  /\ UNCHANGED <<cfg, now, tc, cur, sleep_until, res, flagVars, targetVars,
                 batchVars, seqVars, poolVars, resultVars, per_url_hit, cd_calls>>

\* fault variant: the User-Agent is added to the task's mapping itself, which
\* is the mapping held by the configuration
InjectedInPlace(t) ==
  [cfg EXCEPT
     !.header = IF cfg.header # {} /\ cur[t][3] = cfg.header
                  THEN WithUserAgent(cfg.header) ELSE cfg.header,
     !.header_file = [i \in 1..Len(cfg.header_file) |->
                        IF cur[t][3] = cfg.header_file[i]
                          THEN WithUserAgent(cfg.header_file[i])
                        ELSE cfg.header_file[i]]]

\* the configuration, whose header mappings the tasks refer to, after
\* "headers = headers.copy(); headers['User-Agent'] = ..." (lines 381-383):
\* the entry is added to a copy
ConfigAfterRequest(t) == cfg

\* Fuzzer._make_single_request: the User-Agent is added to the headers sent
\* and requests.request(...) is called
MakeSingleRequest(t) ==
  /\ pc[t] = "request"
  /\ cfg' = ConfigAfterRequest(t)
  /\ res' = [res EXCEPT ![t] = Respond(cur[t])]
  /\ requested' = IF t = Main THEN requested ELSE requested \cup {wtask[t]}
  /\ pc' = [pc EXCEPT ![t] = "respond"]
  /\ UNCHANGED <<now, tc, cur, sleep_until, flagVars, limiterVars,
                 targetVars, batchVars, seqVars, fut, fres, qhead, sem,
                 yielded, cfut, ci, wtask, pending_at_cap, timeout_seen,
                 at_timeout, contributors, resultVars,
                 per_url_hit>>

IsStatus(outcome) == outcome \in Statuses

\* should_log of _make_single_request, for a received response
ShouldLog(outcome) ==
  IsStatus(outcome)
    /\ (cfg.filter_status_code = {} \/ outcome \in cfg.filter_status_code)

\* the outcome of a completed request is one the configured filter admits:
\* any status or error outcome without a filter, else a tag in the filter
MatchesFilter(outcome) ==
  /\ Tag(outcome) # "RAISE"
  /\ (cfg.filter_status_code = {} \/ Tag(outcome) \in cfg.filter_status_code)

\* logged_count after "with self.log_lock: self.logged_count += 1"
CountLogged(outcome) ==
  IF ShouldLog(outcome) THEN logged_count + 1 ELSE logged_count

\* _run_sequential: _make_single_request returned a record; it is appended,
\* and the cap is tested
SeqRequestDone ==
  /\ pc[Main] = "respond"
  /\ cd_calls' = [cd_calls EXCEPT ![Main] = 0]
  /\ Tag(res[Main]) # "RAISE"
  /\ ShouldLog(res[Main]) => log_lock = Free
  /\ logged_count' = CountLogged(res[Main])
  /\ executed_matching' = executed_matching + (IF MatchesFilter(res[Main]) THEN 1 ELSE 0)
  /\ all_results' = Append(all_results, Record(cur[Main], res[Main]))
  /\ accepted' = Append(accepted, Record(cur[Main], res[Main]))
  /\ pc' = [pc EXCEPT ![Main] =
              IF CapReached(Len(all_results) + 1) THEN "fuzz_return"
              ELSE "seq_header"]
  /\ UNCHANGED <<cfg, now, tc, cur, sleep_until, res, flagVars, last_request_time,
                 request_timing_lock, lrt_writes,
                 targetVars, batchVars, seqVars, poolVars, returned,
                 filtered_results,
                 per_url_hit>>

\* fault variant: the restore is skipped when the processing raises
RestoreSkipped == base_url

\* config.base_url once an exception has left run(): in multi-target mode
\* it passes the finally clause of _process_url_list (line 154)
BaseUrlAfterRaise == IF UrlMode THEN original_base_url ELSE base_url

\* _run_sequential: an exception that is no RequestException leaves
\* _make_single_request, _run_sequential and run(); the finally clause of
\* _process_url_list restores base_url on the way
SeqRaise ==
  /\ pc[Main] = "respond"
  /\ cd_calls' = [cd_calls EXCEPT ![Main] = 0]
  /\ Tag(res[Main]) = "RAISE"
  /\ base_url' = BaseUrlAfterRaise
  /\ pc' = [pc EXCEPT ![Main] = "raised"]
  /\ UNCHANGED <<cfg, now, tc, cur, sleep_until, res, flagVars, last_request_time,
                 request_timing_lock, lrt_writes,
                 scan_start_time, current_url_start_time, original_base_url,
                 url_index, results, started_url, late, batchVars, seqVars,
                 poolVars, resultVars, per_url_hit>>

\* -------------------------------------------------------- pool workers ----
\* A pool thread takes the next work item of the queue.  A cancelled future
\* is dropped; a pending one becomes running and _make_threaded_request
\* starts: "with semaphore", then the call of _is_timeout.
WorkerTake(w) ==
  /\ w \in PoolWorkers
  /\ pc[w] = "idle"
  /\ qhead <= Len(fut)
  /\ qhead' = qhead + 1
  /\ IF fut[qhead] = "pending"
       THEN /\ sem > 0
            /\ sem' = sem - 1
            /\ fut' = [fut EXCEPT ![qhead] = "running"]
            /\ wtask' = [wtask EXCEPT ![w] = qhead]
            /\ cur' = [cur EXCEPT ![w] = RequestTasks(Urls)[qhead]]
            /\ pc' = [pc EXCEPT ![w] = "w_check"]
            /\ tc' = [tc EXCEPT ![w] = "global"]
       ELSE UNCHANGED <<sem, fut, wtask, cur, pc, tc>>
  /\ UNCHANGED <<cfg, now, sleep_until, res, flagVars, limiterVars, targetVars,
                 batchVars, seqVars, fres, yielded, cfut, ci, pending_at_cap, timeout_seen,
                 at_timeout, contributors,
                 requested, resultVars, per_url_hit>>

\* _make_threaded_request after _is_timeout returned r: "return ''" (the
\* semaphore is released, the future completes), or the call of
\* _coordinate_delay
WorkerChecked(w, r) ==
  /\ tc' = [tc EXCEPT ![w] = "none"]
  /\ IF r
       THEN /\ fut' = [fut EXCEPT ![wtask[w]] = "finished"]
            /\ fres' = [fres EXCEPT ![wtask[w]] = NoResult]
            /\ sem' = sem + 1
            /\ pc' = [pc EXCEPT ![w] = "idle"]
       ELSE /\ pc' = [pc EXCEPT ![w] = "cd"]
            /\ UNCHANGED <<fut, fres, sem>>
  /\ UNCHANGED <<cur, sleep_until, res, limiterVars, targetVars, batchVars,
                 seqVars, qhead, yielded, cfut, ci, wtask, pending_at_cap, timeout_seen,
                 at_timeout, contributors,
                 requested, resultVars>>

\* _make_threaded_request returns what _make_single_request returned, or its
\* exception propagates; the semaphore is released and the future completes
WorkerRequestDone(w) ==
  /\ w # Main
  /\ cd_calls' = [cd_calls EXCEPT ![w] = 0]
  /\ pc[w] = "respond"
  /\ ShouldLog(res[w]) => log_lock = Free
  /\ logged_count' = CountLogged(res[w])
  /\ executed_matching' = executed_matching + (IF MatchesFilter(res[w]) THEN 1 ELSE 0)
  /\ fut' = [fut EXCEPT ![wtask[w]] = "finished"]
  /\ fres' = [fres EXCEPT ![wtask[w]] =
                IF Tag(res[w]) = "RAISE" THEN Raised ELSE Record(cur[w], res[w])]
  /\ sem' = sem + 1
  /\ pc' = [pc EXCEPT ![w] = "idle"]
  /\ UNCHANGED <<cfg, now, tc, cur, sleep_until, res, flagVars, last_request_time,
                 request_timing_lock, lrt_writes,
                 targetVars, batchVars, seqVars, qhead, yielded, cfut, ci,
                 wtask, pending_at_cap, timeout_seen,
                 at_timeout, contributors, requested, all_results, accepted,
                 returned, filtered_results, per_url_hit>>

\* ----------------------------------------------------------- collector ----
CollectUnchanged ==
  UNCHANGED <<cfg, now, cur, sleep_until, res, flagVars, limiterVars,
              targetVars, batchVars, seqVars, per_url_hit>>

\* fault variant: the collector iterates over the futures as submitted
AnyFuture(k) == TRUE

\* as_completed yields a future only when it is done (finished or cancelled)
Yieldable(k) == fut[k] \in {"finished", "cancelled"}

\* "future.result(timeout=1)" (line 256): the wait returns at once for a done
\* future and expires, raising TimeoutError, for one that is not done within
\* the second
ResultWait(k) ==
  IF fut[k] \in {"finished", "cancelled"} THEN "returns" ELSE "expires"

\* fault variant: as_completed yields a done future again and again
YieldsAgain == 1..Len(fut)

\* the futures as_completed has still to yield
NotYetYielded == (1..Len(fut)) \ yielded

\* _collect_threaded_result: as_completed yields a future that is done and
\* was not yielded before; then the call of _is_timeout
AsCompletedNext ==
  /\ pc[Main] = "collect"
  /\ \E k \in NotYetYielded :
       /\ Yieldable(k)
       /\ cfut' = k
       /\ yielded' = yielded \cup {k}
  /\ pc' = [pc EXCEPT ![Main] = "collect_check"]
  /\ tc' = [tc EXCEPT ![Main] = "global"]
  /\ UNCHANGED <<fut, fres, qhead, sem, ci, wtask, pending_at_cap, timeout_seen,
                 at_timeout, contributors, requested,
                 resultVars>>
  /\ CollectUnchanged

\* fault variant: as_completed ends as soon as no unyielded future is done
GivesUpWaiting ==
  \A k \in (1..Len(fut)) \ yielded : fut[k] \notin {"finished", "cancelled"}

\* as_completed(future_to_request), called without a timeout, is exhausted
\* only when it has yielded every future
AsCompletedExhausted == yielded = 1..Len(fut)

\* _collect_threaded_result: every future was yielded, the for loop ends
AsCompletedEnd ==
  /\ pc[Main] = "collect"
  /\ AsCompletedExhausted
  /\ pc' = [pc EXCEPT ![Main] = "pool_exit"]
  /\ UNCHANGED <<tc, poolVars, resultVars>>
  /\ CollectUnchanged

\* fault variant: the collector takes every result for empty
NoFutureHasRecord(k) == FALSE

\* "result = future.result(timeout=1)" neither raises (a cancelled future,
\* an exception of the task) nor gives an empty string
FutureHasRecord(k) ==
  fut[k] # "cancelled" /\ fres[k] \notin {Raised, NoResult}

\* fault variant: the collector goes on accepting after a timeout
AcceptsAfterTimeout(r) == FALSE

\* "if self._is_timeout(): ... break" of the collector (lines 249-253)
StopsAccepting(r) == r

\* _collect_threaded_result after _is_timeout returned r.  True: the cancel
\* loop starts.  False: future.result(timeout=1) of the yielded future; an
\* exception is logged, a non-empty record is appended, and at MAX_RESULT
\* records the cancel loop starts.
Collected(r) ==
  /\ tc' = [tc EXCEPT ![Main] = "none"]
  /\ timeout_seen' = (timeout_seen \/ r)
  /\ at_timeout' = IF r /\ ~timeout_seen THEN all_results ELSE at_timeout
  /\ contributors' = IF ~StopsAccepting(r) /\ FutureHasRecord(cfut)
                       THEN Append(contributors, cfut) ELSE contributors
  /\ IF StopsAccepting(r)
       THEN /\ pc' = [pc EXCEPT ![Main] = "cancel"]
            /\ ci' = 1
            /\ UNCHANGED <<all_results, accepted, pending_at_cap>>
       ELSE IF ~FutureHasRecord(cfut)
       THEN /\ pc' = [pc EXCEPT ![Main] = "collect"]
            /\ UNCHANGED <<all_results, accepted, ci, pending_at_cap>>
       ELSE /\ all_results' = Append(all_results, fres[cfut])
            /\ accepted' = Append(accepted, fres[cfut])
            /\ IF CapReached(Len(all_results) + 1)
                 THEN /\ pc' = [pc EXCEPT ![Main] = "cancel"]
                      /\ ci' = 1
                      /\ pending_at_cap' =
                           {k \in 1..Len(fut) : fut[k] = "pending"}
                 ELSE /\ pc' = [pc EXCEPT ![Main] = "collect"]
                      /\ UNCHANGED <<ci, pending_at_cap>>
  /\ UNCHANGED <<cur, sleep_until, res, limiterVars, targetVars, batchVars,
                 seqVars, fut, fres, qhead, sem, yielded, cfut, wtask,
                 requested, returned, filtered_results, logged_count,
                 executed_matching>>

\* _collect_threaded_result: one iteration of a cancel loop (lines 250-252
\* and 264-265): cancel() succeeds on a pending future only
CancelStep ==
  /\ pc[Main] = "cancel"
  /\ ci <= Len(fut)
  /\ fut' = [fut EXCEPT ![ci] = IF fut[ci] = "pending" THEN "cancelled"
                                ELSE fut[ci]]
  /\ ci' = ci + 1
  /\ UNCHANGED <<pc, tc, fres, qhead, sem, yielded, cfut, wtask,
                 pending_at_cap, timeout_seen,
                 at_timeout, contributors, requested, resultVars>>
  /\ CollectUnchanged

\* _collect_threaded_result: the cancel loop is over, "break"
CancelDone ==
  /\ pc[Main] = "cancel"
  /\ ci > Len(fut)
  /\ pc' = [pc EXCEPT ![Main] = "pool_exit"]
  /\ UNCHANGED <<tc, poolVars, resultVars>>
  /\ CollectUnchanged

\* _run_fuzz_threading: the with block of the ThreadPoolExecutor ends, which
\* waits until the queue is drained and every worker has finished
PoolExit ==
  /\ pc[Main] = "pool_exit"
  /\ qhead > Len(fut)
  /\ \A w \in WorkerIds : pc[w] = "idle"
  /\ pc' = [pc EXCEPT ![Main] = "fuzz_return"]
  /\ fut' = <<>>
  /\ fres' = <<>>
  /\ qhead' = 1
  /\ UNCHANGED <<tc, sem, yielded, cfut, ci, wtask, pending_at_cap, timeout_seen,
                 at_timeout, contributors, requested,
                 resultVars>>
  /\ CollectUnchanged

\* ------------------------------------------------------ timeout checks ----
\* what the caller of a timeout check does with its result r
Continue(t, r) ==
  CASE pc[t] = "url_check" -> UrlChecked(r)
    [] pc[t] = "batch_check" -> BatchChecked(r)
    [] pc[t] = "seq_url_check" -> SeqUrlChecked(r)
    [] pc[t] = "seq_method_check" -> SeqMethodChecked(r)
    [] pc[t] = "seq_header_check" -> SeqHeaderChecked(r)
    [] pc[t] = "collect_check" -> Collected(r)
    [] pc[t] = "w_check" -> WorkerChecked(t, r)

\* the check sites that call _is_timeout_global alone (line 134); the others
\* go on to _is_per_url_timeout when the global check is false
GlobalOnlySites == {"url_check"}

\* _is_per_url_timeout reads the clock
PerUrlConfigured ==
  cfg.per_url_time_limit # NoneNum /\ current_url_start_time # NoneNum

CheckUnchanged ==
  UNCHANGED <<pc, cur, sleep_until, res, limiterVars, targetVars, batchVars,
              seqVars, poolVars, resultVars>>

\* Fuzzer._is_timeout_global up to its call of _log_timeout_once; when it
\* returns False the caller goes on to _is_per_url_timeout, which returns
\* False at once when no per-target limit or start time is set
IsTimeoutGlobal(t) ==
  /\ tc[t] = "global"
  /\ IF stop_event
       THEN Continue(t, TRUE)
       ELSE IF GlobalExpired
       THEN tc' = [tc EXCEPT ![t] = "log"] /\ CheckUnchanged
       ELSE IF pc[t] \in GlobalOnlySites \/ ~PerUrlConfigured
       THEN Continue(t, FALSE)
       ELSE tc' = [tc EXCEPT ![t] = "per"] /\ CheckUnchanged
  /\ UNCHANGED <<cfg, now, flagVars, per_url_hit>>

\* Fuzzer._log_timeout_once: "with self.log_lock"
LogTimeoutAcquire(t) ==
  /\ tc[t] = "log"
  /\ log_lock = Free
  /\ log_lock' = t
  /\ tc' = [tc EXCEPT ![t] = "hold"]
  /\ CheckUnchanged
  /\ UNCHANGED <<cfg, now, stop_event, time_hit_logged, timeout_logs,
                 per_url_hit>>

\* fault variant: every detector logs and sets the flag
EveryDetector == TRUE

\* the guard "if not self.time_hit_logged" of _log_timeout_once
FirstDetector == ~time_hit_logged

\* fault variant: the flag is assigned the guard, so a later detector clears it
FlagFollowsGuard == ~time_hit_logged

\* stop_event after the body of _log_timeout_once: set by the first
\* detector, untouched by a later one
StopEventAfterLog == FirstDetector \/ stop_event

\* fault variant: the detector keeps the log lock
LockKept(t) == t

\* the end of "with self.log_lock" in _log_timeout_once releases the lock
LockAfterLog(t) == Free

\* Fuzzer._log_timeout_once: the body under the lock; then
\* _is_timeout_global returns True
LogTimeoutOnce(t) ==
  /\ tc[t] = "hold"
  /\ timeout_logs' = IF FirstDetector THEN timeout_logs + 1 ELSE timeout_logs
  /\ time_hit_logged' = (FirstDetector \/ time_hit_logged)
  /\ stop_event' = StopEventAfterLog
  /\ log_lock' = LockAfterLog(t)
  /\ Continue(t, TRUE)
  /\ UNCHANGED <<cfg, now, per_url_hit>>

PerUrlExpired ==
  /\ cfg.per_url_time_limit # NoneNum
  /\ current_url_start_time # NoneNum
  /\ (now - current_url_start_time) > cfg.per_url_time_limit

\* fault variant: an expired per-target limit also sets the flag
PerUrlSetsFlag == stop_event \/ PerUrlExpired

\* stop_event after _is_per_url_timeout, which only reads the clock and
\* returns
StopEventAfterPerUrl == stop_event

\* Fuzzer._is_per_url_timeout
IsPerUrlTimeout(t) ==
  /\ tc[t] = "per"
  /\ per_url_hit' = IF PerUrlExpired THEN per_url_hit \cup {url_index}
                    ELSE per_url_hit
  /\ stop_event' = StopEventAfterPerUrl
  /\ Continue(t, PerUrlExpired)
  /\ UNCHANGED <<cfg, now, time_hit_logged, log_lock, timeout_logs>>

\* ------------------------------------------------------- specification ----
\* the steps of the threads of the program
Progress ==
  \/ \E t \in Threads :
       \/ SleepElapse(t)
       \/ IsTimeoutGlobal(t)
       \/ LogTimeoutAcquire(t)
       \/ LogTimeoutOnce(t)
       \/ IsPerUrlTimeout(t)
       \/ CoordinateDelay(t)
       \/ CoordinateDelayWake(t)
       \/ MakeSingleRequest(t)
  \/ Run \/ UrlLoopNext \/ UrlLoopEnd \/ UrlFinish \/ FinalizeResults
  \/ BatchLoopNext \/ BatchLoopEnd
  \/ RunFuzzThreading \/ FuzzReturn
  \/ SeqUrlNext \/ SeqMethodNext \/ SeqHeaderNext \/ SeqRequestDone
  \/ SeqRaise
  \/ \E w \in WorkerIds : WorkerTake(w) \/ WorkerRequestDone(w)
  \/ AsCompletedNext \/ AsCompletedEnd \/ CancelStep \/ CancelDone
  \/ PoolExit

Next == Tick \/ Progress

Spec == Init /\ [][Next]_vars

\* every network request returns and every thread that can take a step is
\* scheduled; the clock may stand still
LiveSpec == Spec /\ WF_vars(Progress)

\* ---------------------------------------------------------- properties ----
\* the workers inside "with semaphore" of _make_threaded_request
InFlight ==
  {w \in WorkerIds : pc[w] \in {"w_check", "cd", "cd_sleep", "request", "respond"}}

\* C1: in concurrent mode (num_threads > 1) the number of tasks inside the
\* semaphore-gated section of _make_threaded_request (limiter wait or network
\* call) is at most num_threads in every reachable state, however many
\* tasks were submitted.
C1_GateBound ==
  cfg.num_threads > 1 => Cardinality(InFlight) <= cfg.num_threads

\* num_threads tasks are past the timeout check of the gated section while
\* another submitted task is still waiting
C1_Witness ==
  /\ cfg.num_threads > 1
  /\ Cardinality(InFlight) = cfg.num_threads
  /\ \A w \in InFlight : pc[w] \in {"cd", "cd_sleep", "request", "respond"}
  /\ \E k \in 1..Len(fut) : fut[k] = "pending"

\* C2: with a delay d > 0, any two consecutive values written to
\* _last_request_time differ by at least d, in every interleaving of the
\* callers of _coordinate_delay.
C2_SpacedWrites ==
  cfg.delay > 0 =>
    \A i \in 1..(Len(lrt_writes) - 1) :
      lrt_writes[i + 1] - lrt_writes[i] >= cfg.delay

\* workers of a pool have written two timestamps exactly d apart and a
\* worker sleeps in the limiter again, holding the lock
C2_Witness ==
  /\ cfg.num_threads > 1
  /\ cfg.delay > 0
  /\ Len(lrt_writes) >= 2
  /\ lrt_writes[2] - lrt_writes[1] = cfg.delay
  /\ \E w \in WorkerIds : pc[w] = "cd_sleep" /\ request_timing_lock = w

\* C3: the list run() returns, accumulated over every path batch and every
\* target, never holds more than MAX_RESULT records.
C3_ReturnedWithinCap ==
  pc[Main] = "done" => Len(returned) <= MAX_RESULT

\* C4: once the collector has accepted MAX_RESULT records, no task that was
\* still pending at that moment begins its request afterwards.
C4_NoStartAfterCap ==
  pending_at_cap \cap requested = {}

\* C5: stop_event is monotonic within a run: no step takes it from set to
\* clear.
C5_StopEventMonotonic ==
  [][stop_event => stop_event']_vars

\* a concurrent run has ended with the flag set
C5_Witness ==
  /\ stop_event
  /\ cfg.num_threads > 1
  /\ pc[Main] = "done"

\* C6: however many threads call the global check after the deadline, the
\* "Global time limit exceeded" line is logged exactly once per run, and the
\* detector that logs it is the one that sets stop_event: the line is never
\* logged twice, the flag is set exactly when the line was logged, a
\* detector exists only once the deadline has passed, and a run whose target
\* loop was checked after the deadline ends with the line logged.
C6_LoggedOnce ==
  /\ timeout_logs <= 1
  /\ stop_event <=> (timeout_logs = 1)
  /\ time_hit_logged <=> stop_event
  /\ \A t \in Threads : tc[t] \in {"log", "hold"} => GlobalExpired
  /\ (pc[Main] = "done" /\ late # {}) => timeout_logs = 1

\* a second detector holds the log lock after the first one has logged
C6_Witness ==
  /\ timeout_logs = 1
  /\ time_hit_logged
  /\ \E t \in Threads : tc[t] = "hold" /\ log_lock = t

\* C7: in multi-target mode no target whose loop iteration begins after the
\* global deadline becomes current (nothing of it is dispatched), and run()
\* returns every record that was collected.
C7_AbandonTargets ==
  /\ late \cap started_url = {}
  /\ (UrlMode /\ pc[Main] = "done") => returned = accepted

\* a run that abandoned a target has returned the records collected before
C7_Witness ==
  /\ UrlMode
  /\ pc[Main] = "done"
  /\ late # {}
  /\ returned # <<>>

\* the tasks of a dispatch for which _make_single_request returns a record
Answered(urls) ==
  {k \in 1..Len(RequestTasks(urls)) : Tag(Respond(RequestTasks(urls)[k])) # "RAISE"}

\* the records of an undisturbed dispatch of urls
FullRecords(urls) ==
  {Record(RequestTasks(urls)[k], Respond(RequestTasks(urls)[k])) :
     k \in Answered(urls)}

\* the number of records an undisturbed dispatch returns
DispatchCount(urls) == Min(MAX_RESULT, Cardinality(Answered(urls)))

RECURSIVE IsolatedCount(_, _)
\* the number of records an undisturbed scan of one target returns, from
\* path index i on
IsolatedCount(base, i) ==
  IF ~PathMode THEN DispatchCount(<<base>>)
  ELSE IF i >= Len(cfg.path_file) THEN 0
  ELSE DispatchCount(ExpandPaths(base, BatchPaths(i)))
         + IsolatedCount(base, i + cfg.path_batch_size)

\* url_results of _process_url_list
UrlResults == IF PathMode THEN batch_results ELSE all_results

\* the target after one that hit its per-target limit has been scanned
\* undisturbed: no limit of its own hit, no global stop
AfterPerUrlHit ==
  /\ pc[Main] = "url_finish"
  /\ url_index > 1
  /\ (url_index - 1) \in per_url_hit
  /\ url_index \notin per_url_hit
  /\ ~stop_event

C8_NextTargetComplete ==
  /\ AfterPerUrlHit =>
       /\ url_index \in started_url
       /\ Len(UrlResults) = IsolatedCount(base_url, 0)
       /\ \A n \in 1..Len(UrlResults) :
            UrlResults[n] \in
              FullRecords(IF PathMode THEN ExpandPaths(base_url, cfg.path_file)
                          ELSE <<base_url>>)
  /\ (UrlMode /\ pc[Main] = "done" /\ ~stop_event) =>
       started_url = 1..Len(cfg.url_file)

C8_FreshStart ==
  started_url' # started_url => current_url_start_time' = now'

\* C8: in multi-target mode with a per-target limit, when target A hits its
\* per-target limit and the global deadline has not stopped the run, the
\* next target B is still processed, its per-target start time is the time
\* at which it becomes current, and it yields the records of an undisturbed
\* scan of B alone.
C8_PerUrlIsolation ==
  []C8_NextTargetComplete /\ [][C8_FreshStart]_vars

\* target 2 was scanned to the end after target 1 hit its limit
C8_Witness ==
  /\ AfterPerUrlHit
  /\ UrlResults # <<>>
  /\ current_url_start_time > scan_start_time

\* C9: a step that evaluates _is_per_url_timeout, whatever it returns,
\* leaves stop_event and time_hit_logged unchanged.
C9_PerUrlFrame ==
  [][(\E t \in Threads : tc[t] = "per" /\ tc'[t] # "per") =>
       (stop_event' = stop_event /\ time_hit_logged' = time_hit_logged)]_vars

\* the per-target predicate was true in a run with a global limit, and the
\* flag and the marker are clear
C9_Witness ==
  /\ per_url_hit # {}
  /\ cfg.time # NoneNum
  /\ ~stop_event
  /\ ~time_hit_logged

\* C11: _make_single_request returns one record for every request-level
\* outcome and lets no RequestException out: a response gives its status
\* code, the headers sent and its byte length; an exception that is a Timeout
\* (a connect timeout included) gives TIMEOUT, another ConnectionError gives
\* CONNECTION_ERROR, any other RequestException gives ERROR, and these three
\* records carry empty headers and 0 bytes.
C11_RequestRecords ==
  \A t \in Threads :
    pc[t] = "respond" =>
      LET raw == res[t]
          rec == Record(cur[t], raw)
          err(tag) == <<cur[t][1], tag, cur[t][2], {}, 0>>
      IN /\ raw \in Statuses =>
              /\ rec[2] = raw /\ rec[5] = ContentLength(cur[t])
              /\ rec[1] = cur[t][1] /\ rec[3] = cur[t][2]
         /\ "Timeout" \in Bases(raw) => rec = err("TIMEOUT")
         /\ ("ConnectionError" \in Bases(raw) /\ "Timeout" \notin Bases(raw)) =>
              rec = err("CONNECTION_ERROR")
         /\ ("RequestException" \in Bases(raw)
               /\ Bases(raw) \cap {"Timeout", "ConnectionError"} = {}) =>
              rec = err("ERROR")
         /\ (raw \in Statuses \/ "RequestException" \in Bases(raw)) =>
              Tag(raw) # "RAISE"

\* a request ended in a connect timeout, which is both a Timeout and a
\* ConnectionError
C11_Witness ==
  \E t \in Threads : pc[t] = "respond" /\ res[t] = "ConnectTimeout"

\* the positions of the main thread outside the processing of a target
OutsideTarget == {"run", "url_loop", "url_check", "finalize", "done", "raised"}

\* C12: in multi-target mode config.base_url is swapped and restored around
\* each target: whenever no target is being processed -- before the first
\* one, between two targets, after the loop, and after an exception has left
\* the processing of a target -- it has the value it had before the call,
\* and while a target is processed it is that target without trailing
\* slashes, the prior value being saved.
C12_BaseUrlRestored ==
  UrlMode =>
    IF pc[Main] \in OutsideTarget THEN base_url = cfg.base_url
    ELSE /\ base_url = RStripSlash(cfg.url_file[url_index])
         /\ original_base_url = cfg.base_url

\* the processing of a target has raised and the configured base URL, which
\* differs from every target, is back in place
C12_Witness ==
  /\ UrlMode
  /\ pc[Main] = "raised"
  /\ started_url # {}
  /\ cfg.base_url # NoStr
  /\ base_url = cfg.base_url

\* C13: whenever a thread, the main thread of a sequential dispatch or a
\* pool worker, is at or past the network call of a request,
\* _coordinate_delay has been called exactly once for that request.
C13_LimiterOnce ==
  \A t \in Threads : pc[t] \in {"request", "respond"} => cd_calls[t] = 1

\* a pool worker has slept in the limiter and performed its request
C13_Witness ==
  \E w \in WorkerIds :
    /\ pc[w] = "respond"
    /\ cd_calls[w] = 1
    /\ cfg.delay > 0
    /\ sleep_until[w] > 0

\* C14: the list run() returns never contains two identical records.
C14_NoDuplicates ==
  pc[Main] = "done" =>
    \A i \in 1..Len(returned) : \A j \in 1..Len(returned) :
      i # j => returned[i] # returned[j]

\* C15: in single-target batch mode with a per-target limit, no chunk is
\* dispatched by a check made when the time since the target's processing
\* started (the start of run()) exceeds the limit.
C15_NoChunkAfterLimit ==
  [][(/\ ~UrlMode
      /\ cfg.per_url_time_limit # NoneNum
      /\ pc[Main] = "batch_check"
      /\ pc'[Main] = "fuzz") =>
       (now - scan_start_time) <= cfg.per_url_time_limit]_vars

\* C16: when max_methods (max_headers) is set, the method (header) list the
\* tasks are expanded from has at most that many entries, whatever source
\* it was resolved from.
C16_ListsCapped ==
  /\ cfg.max_methods # NoneNum => Len(GetMethods) <= cfg.max_methods
  /\ cfg.max_headers # NoneNum => Len(GetHeaders) <= cfg.max_headers

\* C17: the URL list of a chunk of k paths has 18*k entries, and its j-th
\* block of 18 is the catalog of (base URL, j-th path) in the fixed order
\* (plain first, upper-cased 13th, ".json" last), whatever paths, chunks or
\* targets were expanded before.
C17_Catalog ==
  PathMode =>
    LET ps == BatchPaths(batch_i)
    IN /\ Len(Urls) = 18 * Len(ps)
       /\ \A j \in 1..Len(ps) :
            LET blk == SubSeq(Urls, 18 * (j - 1) + 1, 18 * j)
            IN /\ blk = Variations(base_url, ps[j])
               /\ blk[1] = base_url \o <<"/">> \o ps[j]
               /\ blk[13] = base_url \o <<"/">> \o StrUpper(ps[j])
               /\ blk[18] = base_url \o <<"/">> \o ps[j]
                               \o <<".", "j", "s", "o", "n">>

\* the second chunk of the second target is about to be dispatched, after
\* the expansions for the first target and the first chunk
C17_Witness ==
  /\ PathMode
  /\ pc[Main] = "fuzz"
  /\ url_index = 2
  /\ batch_i > 0
  /\ Len(Urls) = 18

\* the records of the tasks of the dispatch in progress, in task order
ExpectedRecords ==
  LET tasks == RequestTasks(Urls)
  IN [k \in 1..Len(tasks) |-> Record(tasks[k], Respond(tasks[k]))]

Count(seq, x) == Cardinality({i \in 1..Len(seq) : seq[i] = x})

\* a and b hold the same records the same number of times
SameBag(a, b) ==
  /\ Len(a) = Len(b)
  /\ \A i \in 1..Len(a) : Count(a, a[i]) = Count(b, a[i])

\* a dispatch has ended that no timeout and no cap has cut short and in
\* which every task got a record from the executor
UndisturbedDispatch ==
  /\ pc[Main] = "fuzz_return"
  /\ ~stop_event
  /\ url_index \notin per_url_hit
  /\ Len(all_results) < MAX_RESULT
  /\ Answered(Urls) = 1..Len(RequestTasks(Urls))

\* C18: for the same URL list, methods and headers and a deterministic
\* executor, with no timeout and no cap reached, the sequential dispatcher
\* returns the records of the tasks in task order and the concurrent
\* dispatcher returns a permutation of the same records.
C18_SameRecords ==
  UndisturbedDispatch =>
    IF cfg.num_threads <= 1 THEN all_results = ExpectedRecords
    ELSE SameBag(all_results, ExpectedRecords)

\* a concurrent dispatch has returned the records of its two tasks in
\* completion order, the second task first
C18_Witness ==
  /\ UndisturbedDispatch
  /\ cfg.num_threads > 1
  /\ Len(all_results) = 2
  /\ all_results[1] = ExpectedRecords[2]
  /\ all_results[2] = ExpectedRecords[1]

\* the records whose outcome tag is one of the codes, in their order
WithTagIn(recs, codes) == SelectSeq(recs, LAMBDA r : r[2] \in codes)

\* C19: filter_status returns exactly the records of its input whose outcome
\* tag is one of the given codes, in their original order.
C19_FilterExact ==
  (pc[Main] = "done" /\ cfg.filter_status_code # {}) =>
    filtered_results = WithTagIn(returned, cfg.filter_status_code)

\* the positions of the main thread inside a sequential dispatch
SeqPositions ==
  {"seq_url", "seq_url_check", "seq_method", "seq_method_check", "seq_header",
   "seq_header_check", "cd", "cd_sleep", "request", "respond", "fuzz_return"}

\* C20: in sequential mode the records of a dispatch are, in order, the
\* records of a prefix of its task list (URL-major, then method, then
\* header), and the main thread is never in a request once the combined
\* timeout predicate has been observed true (the stop flag set, or the
\* per-target limit of the current target found exceeded).
C20_SequentialPrefix ==
  cfg.num_threads <= 1 =>
    /\ pc[Main] \in SeqPositions =>
         LET tasks == RequestTasks(Urls)
         IN /\ Len(all_results) <= Len(tasks)
            /\ \A k \in 1..Len(all_results) :
                 all_results[k] = Record(tasks[k], Respond(tasks[k]))
    /\ pc[Main] \in {"cd", "cd_sleep", "request", "respond"} =>
         /\ ~stop_event
         /\ url_index \notin per_url_hit

\* a sequential dispatch of two tasks has returned the record of the first
\* one only, the per-target limit having been found exceeded after it
C20_Witness ==
  /\ cfg.num_threads <= 1
  /\ pc[Main] = "fuzz_return"
  /\ url_index \in per_url_hit
  /\ Len(RequestTasks(Urls)) = 2
  /\ Len(all_results) = 1

\* C10: in sequential and in concurrent mode an unexpected exception of one
\* task never aborts the dispatch: run() is never left by that exception.
C10_NeverAborts ==
  pc[Main] # "raised"

\* C21: once stop_event is set, no pool worker begins the network call of a
\* task: a call that had not begun when the flag was set never begins.
C21_NoRequestAfterStop ==
  [][\A w \in WorkerIds :
       ~(stop_event /\ pc[w] = "request" /\ pc'[w] = "respond")]_vars

\* C22: once the collector of a concurrent dispatch has seen the combined
\* timeout predicate true, nothing more is appended to the dispatch's result
\* list, whatever records finished futures hold, and the list the dispatch
\* returns is the list as it was at that observation.
C22_NothingAfterTimeout ==
  timeout_seen =>
    /\ cfg.num_threads > 1
    /\ all_results = at_timeout
    /\ pc[Main] \notin {"collect", "collect_check"}

\* the collector has stopped on a timeout after accepting a record, while a
\* finished future holds a record that was not accepted
C22_Witness ==
  /\ timeout_seen
  /\ pc[Main] = "pool_exit"
  /\ all_results # <<>>
  /\ \E k \in 1..Len(fut) :
       /\ fut[k] = "finished"
       /\ FutureHasRecord(k)
       /\ \A n \in 1..Len(all_results) : all_results[n] # fres[k]

\* the positions of the main thread at which a dispatch may still append
Collecting ==
  {"collect", "collect_check", "seq_url", "seq_url_check", "seq_method",
   "seq_method_check", "seq_header", "seq_header_check", "cd", "cd_sleep",
   "request", "respond"}

\* C23: the result list of one dispatch, sequential or concurrent, never
\* holds more than MAX_RESULT records, and once it holds MAX_RESULT the
\* dispatch collects no more.
C23_DispatchWithinCap ==
  /\ Len(all_results) <= MAX_RESULT
  /\ Len(all_results) = MAX_RESULT => pc[Main] \notin Collecting

\* a concurrent dispatch of more than MAX_RESULT tasks returns MAX_RESULT
\* records
C23_Witness ==
  /\ cfg.num_threads > 1
  /\ pc[Main] = "fuzz_return"
  /\ Len(RequestTasks(Urls)) > MAX_RESULT
  /\ Len(all_results) = MAX_RESULT

\* C24: when run() has returned, logged_count is the number of executed
\* requests whose outcome the status filter admits, error outcomes included
\* when no filter is configured.
C24_LoggedCountExact ==
  pc[Main] = "done" => logged_count = executed_matching

\* run() has returned or was left by an exception
Ended == pc[Main] \in {"done", "raised"}

\* no thread is inside the gate, the limiter or a lock
AllQuiet ==
  /\ \A w \in WorkerIds : pc[w] = "idle"
  /\ \A t \in Threads : tc[t] = "none"
  /\ log_lock = Free
  /\ request_timing_lock = Free

\* C25: when every network request returns and the threads are scheduled
\* fairly, every run ends, also after a timeout or a cap cancellation, and
\* then no worker is left inside the admission gate, the rate limiter, the
\* log lock or a task.
C25_RunReturns ==
  <>(Ended /\ AllQuiet)

\* a concurrent run has returned after its collector stopped on a timeout
C25_Witness ==
  /\ pc[Main] = "done"
  /\ AllQuiet
  /\ cfg.num_threads > 1
  /\ timeout_seen

\* the collector of a concurrent dispatch has left its loop with no timeout
\* seen and the cap not reached
CollectionRanOut ==
  /\ cfg.num_threads > 1
  /\ pc[Main] = "pool_exit"
  /\ ~timeout_seen
  /\ ~stop_event
  /\ Len(all_results) < MAX_RESULT

\* C26: in concurrent mode with no timeout and no cap reached the collector
\* leaves its loop only when every task has completed, however long one of
\* them took, and by then it has collected the record of every task that
\* gave one, the slowest included.
C26_SlowTaskWaitedFor ==
  CollectionRanOut =>
    /\ \A k \in 1..Len(fut) :
         /\ fut[k] = "finished"
         /\ FutureHasRecord(k) => Count(all_results, fres[k]) >= 1
    /\ Len(all_results) = Cardinality({k \in 1..Len(fut) : FutureHasRecord(k)})

\* the collector has collected the record of every other task and waits
\* while the clock has advanced and one task is still in its network call
C26_Witness ==
  /\ cfg.num_threads > 1
  /\ pc[Main] = "collect"
  /\ ~timeout_seen
  /\ now > scan_start_time
  /\ Len(fut) >= 2
  /\ Len(all_results) = Len(fut) - 1
  /\ \E k \in 1..Len(fut) :
       /\ fut[k] = "running"
       /\ k \in requested
       /\ yielded = (1..Len(fut)) \ {k}

\* the positions of the main thread in _process_paths_for_base_url between
\* two dispatches
BetweenChunks == {"batch_loop", "batch_check"}

\* _process_paths_for_base_url has returned with no timeout seen
PathsReturnedInTime ==
  /\ PathMode
  /\ pc[Main] \in {"url_finish", "finalize", "done"}
  /\ ~UrlMode \/ url_index \in started_url
  /\ ~stop_event
  /\ url_index \notin per_url_hit

\* C27: with a batch size B >= 1 the chunks of _process_paths_for_base_url
\* are consecutive slices of at most B paths starting at multiples of B; the
\* paths expanded so far are, in order and each once, the paths before the
\* end of the last chunk dispatched; a chunk is dispatched only when no
\* dispatch is in progress; and when no timeout is reached every path of the
\* list has been expanded.
C27_ChunksInOrder ==
  /\ PathMode =>
       /\ batch_i % cfg.path_batch_size = 0
       /\ expanded = SubSeq(cfg.path_file, 1, Len(expanded))
       /\ pc[Main] \in BetweenChunks =>
            Len(expanded) = Min(batch_i, Len(cfg.path_file))
       /\ pc[Main] \in (Collecting \cup {"fuzz", "fuzz_return"}) =>
            /\ Len(expanded) = Min(batch_i + cfg.path_batch_size, Len(cfg.path_file))
            /\ Len(BatchPaths(batch_i)) \in 1..cfg.path_batch_size
            /\ Urls = ExpandPaths(base_url,
                                  SubSeq(expanded, batch_i + 1, Len(expanded)))
       /\ PathsReturnedInTime => expanded = cfg.path_file
  /\ pc[Main] \in (BetweenChunks \cup {"fuzz"}) =>
       /\ fut = <<>>
       /\ \A w \in WorkerIds : pc[w] = "idle"

\* a list of three paths with batch size 2: the second chunk, of the one
\* remaining path, is about to be dispatched after the first has returned
C27_Witness ==
  /\ PathMode
  /\ pc[Main] = "fuzz"
  /\ cfg.path_batch_size = 2
  /\ batch_i = 2
  /\ expanded = cfg.path_file
  /\ Len(BatchPaths(batch_i)) = 1
  /\ Len(batch_results) = MAX_RESULT

\* list is a prefix of source
PrefixOf(list, source) ==
  /\ Len(list) <= Len(source)
  /\ \A i \in 1..Len(list) : list[i] = source[i]

NoDelay == cfg.delay = NoneNum \/ cfg.delay <= 0

\* without a delay the limiter is never touched and a caller can always
\* return from it
C29_LimiterUntouched ==
  NoDelay =>
    /\ last_request_time = 0
    /\ lrt_writes = <<>>
    /\ request_timing_lock = Free
    /\ \A t \in Threads :
         /\ pc[t] # "cd_sleep"
         /\ sleep_until[t] = 0
         /\ pc[t] = "cd" => ENABLED CoordinateDelay(t)

\* without a delay a call of _coordinate_delay returns in one step
C29_CallReturns ==
  \A t \in Threads :
    (NoDelay /\ pc[t] = "cd" /\ pc'[t] # "cd") =>
      /\ pc'[t] = "request"
      /\ last_request_time' = last_request_time
      /\ request_timing_lock' = request_timing_lock
      /\ sleep_until' = sleep_until

\* C29: _coordinate_delay with a delay that is unset or <= 0 is a no-op: the
\* caller is not blocked and goes on to its request, the timing lock is not
\* taken and _last_request_time is left unchanged.
C29_NoDelayNoOp ==
  []C29_LimiterUntouched /\ [][C29_CallReturns]_vars

\* with a delay of 0 two workers have passed _coordinate_delay at different
\* times
C29_Witness ==
  /\ cfg.delay = 0
  /\ now > scan_start_time
  /\ \E v, w \in WorkerIds :
       /\ v # w
       /\ pc[v] = "respond" /\ cd_calls[v] = 1
       /\ pc[w] = "request" /\ cd_calls[w] = 1

\* C30: _last_request_time never decreases: every step of every thread, in
\* any interleaving of the callers of _coordinate_delay, leaves it unchanged
\* or writes a value that is at least its previous value.
C30_TimestampMonotonic ==
  [][last_request_time' >= last_request_time]_vars

\* three calls of workers have written the timestamp, the last value being
\* later than the first
C30_Witness ==
  /\ cfg.num_threads > 1
  /\ Len(lrt_writes) = 3
  /\ last_request_time = lrt_writes[3]
  /\ lrt_writes[3] > lrt_writes[1]

\* the positions of the main thread in a concurrent dispatch after the
\* submission of the tasks
InCollection == {"collect", "collect_check", "cancel", "pool_exit"}

\* the task was skipped at the entry of _make_threaded_request: its future
\* finished with the empty string
Skipped(k) == fut[k] = "finished" /\ fres[k] = NoResult

\* C31: in a concurrent dispatch every record of the result list comes from
\* one submitted task and no task gives two; a task that was cancelled
\* before it started, or that returned at its entry because the timeout
\* predicate was true, gives none; the list is never longer than the task
\* list.
C31_OneRecordPerTask ==
  (cfg.num_threads > 1 /\ pc[Main] \in InCollection) =>
    LET tasks == RequestTasks(Urls)
    IN /\ Len(fut) = Len(tasks)
       /\ Len(all_results) = Len(contributors)
       /\ Len(all_results) <= Len(tasks)
       /\ \A i \in 1..Len(contributors) :
            /\ contributors[i] \in 1..Len(tasks)
            /\ all_results[i] =
                 Record(tasks[contributors[i]], Respond(tasks[contributors[i]]))
            /\ \A j \in 1..Len(contributors) :
                 i # j => contributors[i] # contributors[j]
       /\ \A k \in 1..Len(fut) :
            (fut[k] = "cancelled" \/ Skipped(k)) =>
              /\ k \notin requested
              /\ \A i \in 1..Len(contributors) : contributors[i] # k

\* a dispatch of two tasks has ended with the record of one task, the other
\* task having been skipped at its entry after the deadline
C31_Witness ==
  /\ cfg.num_threads > 1
  /\ pc[Main] = "pool_exit"
  /\ Len(fut) = 2
  /\ Len(all_results) = 1
  /\ \E k \in 1..Len(fut) : Skipped(k) /\ k \in yielded

\* the flag is set only when the run is more than the global limit old and
\* the limit line has been logged
C32_FlagMeansDeadline ==
  stop_event =>
    /\ cfg.time # NoneNum
    /\ scan_start_time # NoneNum
    /\ now - scan_start_time > cfg.time * SecondsPerMinute
    /\ timeout_logs = 1
    /\ time_hit_logged

\* the step that sets the flag is the body of _log_timeout_once of a thread
\* that found the global limit exceeded
C32_SetByDetector ==
  (stop_event' /\ ~stop_event) =>
    \E t \in Threads :
      /\ tc[t] = "hold" /\ tc'[t] = "none"
      /\ log_lock = t
      /\ timeout_logs' = timeout_logs + 1

\* C32: stop_event is set only by the global-timeout detector: whenever it
\* is set the time since the start of the scan exceeds the global limit and
\* the limit line has been logged, and no other step -- a per-target timeout,
\* a dispatch reaching the result cap -- sets it.
C32_OnlyGlobalSetsFlag ==
  []C32_FlagMeansDeadline /\ [][C32_SetByDetector]_vars

\* a run in which a per-target limit was hit with the flag clear has ended
\* with the flag set after the global deadline
C32_Witness ==
  /\ pc[Main] = "done"
  /\ stop_event
  /\ per_url_hit # {}
  /\ timeout_logs = 1

\* the header mappings of the configuration, which the tasks share
SharedHeaders == <<cfg.header, cfg.header_file>>

\* no step changes a header mapping of the configuration
C33_HeadersKept ==
  SharedHeaders' = SharedHeaders

\* a request of a task whose mapping has no User-Agent is sent with one,
\* while the mapping of the task still has none
C33_SentWithAgent ==
  \A t \in Threads :
    (pc[t] = "respond" /\ res[t] \in Statuses) =>
      LET sent == Record(cur[t], res[t])[4]
      IN /\ \E h \in sent : h[1] = "User-Agent"
         /\ cur[t][3] \subseteq sent
         /\ (\E i \in 1..Len(GetHeaders) : cur[t][3] = GetHeaders[i])
         /\ cfg.header # {} => cur[t][3] = cfg.header

\* C33: a request never changes the header mapping of its task: the
\* User-Agent is added to a copy, so the mappings of the configuration, which
\* concurrently executing tasks share, are the same after any number of
\* requests, while every request is sent with a User-Agent.
C33_HeaderMappingUnchanged ==
  []C33_SentWithAgent /\ [][C33_HeadersKept]_vars

\* two workers have each sent a request for tasks that share the explicit
\* header mapping, which has no User-Agent
C33_Witness ==
  /\ cfg.header # {}
  /\ \A h \in cfg.header : h[1] # "User-Agent"
  /\ \E v, w \in WorkerIds :
       /\ v # w
       /\ pc[v] = "respond" /\ pc[w] = "respond"
       /\ cur[v][3] = cfg.header /\ cur[w][3] = cfg.header

\* C34: whenever the collector is about to request the result of the future
\* as_completed gave it, that future has completed and no worker is running
\* it, so the wait of future.result(timeout=1) returns at once and the
\* "Future timeout" branch is not taken.
C34_ResultAfterCompletion ==
  pc[Main] = "collect_check" =>
    /\ cfut \in 1..Len(fut)
    /\ ResultWait(cfut) = "returns"
    /\ \A w \in WorkerIds : pc[w] # "idle" => wtask[w] # cfut

\* the collector handles a finished future while a task submitted before it
\* is still in its network call
C34_Witness ==
  /\ pc[Main] = "collect_check"
  /\ fut[cfut] = "finished"
  /\ \E k \in 1..Len(fut) :
       /\ k < cfut
       /\ fut[k] = "running"
       /\ k \in requested

====
